---- MODULE Spec2Model ----
(***************************************************************************)
(* Model of vox-recorder.py: the voice-activated recorder's capture loop   *)
(* (voxrecord / wait_for_activity / record_audio) and its audio transform  *)
(* functions (voice_detected, normalize, trim, add_silence).               *)
(*                                                                         *)
(* Time is counted in clock ticks, TicksPerSec ticks to the second.  Every *)
(* blocking call (stream.read, opening the stream) and every gap between   *)
(* two reads of time.time() lets the wall clock advance by a               *)
(* nondeterministic number of ticks.                                       *)
(***************************************************************************)
EXTENDS Integers, Sequences, FiniteSets, TLC

----------------------------------------------------------------------------
(* Program constants (vox-recorder.py:33-41) *)

SILENCE_THRESHOLD == 3000
RECORD_AFTER_SILENCE_SECS == 2
MAXIMUMVOL == 32767

(* Bounds of the model *)

\* sample rate of the modelled device, in samples per second (scaled down)
RATE == 2
\* largest pre-roll capacity (buffer_chunks) a configuration may give
MaxBufferChunks == 2
\* largest min_voice_chunks a configuration may give
MaxMinVoice == 2
\* chunks read from the audio source in one run
MaxReads == 6
\* resolution of the clock
TicksPerSec == 1
\* largest advance of the clock during one blocking call or between two reads
MaxStep == 3
\* last tick of the clock
MaxClock == 6
\* longest sample sequence given to normalize and trim on their own
MaxSamples == 3
\* calls made on one sample sequence
MaxCalls == 2

\* ticks one chunk lasts when the source delivers in real time
ChunkTicks == 1

\* the chunks the audio source may deliver (each CHUNK_SIZE samples long)
ChunkInputs == { <<0, 3000>>, <<-3001, 0>> }

\* how far the clock may advance during a blocking call
Steps == 0..MaxStep

\* how far the clock may advance between two statements: not at all, or a lot
Gaps == {0, MaxStep}

----------------------------------------------------------------------------
(* Helpers on sequences *)

Abs(x) == IF x < 0 THEN -x ELSE x

Min2(a, b) == IF a <= b THEN a ELSE b

Reverse(s) == [i \in 1..Len(s) |-> s[Len(s) + 1 - i]]

LastN(s, n) == SubSeq(s, Len(s) - Min2(n, Len(s)) + 1, Len(s))

RECURSIVE Flatten(_)
\* record_audio, lines 228-230: snd_data.extend(chunk) for each chunk
Flatten(chunks) ==
    IF chunks = <<>> THEN <<>>
    ELSE Head(chunks) \o Flatten(Tail(chunks))

\* max(abs(i) for i in snd_data), of a non-empty sequence
PeakAbs(s) ==
    CHOOSE m \in {Abs(s[i]) : i \in 1..Len(s)} :
        \A j \in 1..Len(s) : Abs(s[j]) <= m

----------------------------------------------------------------------------
(* Audio functions *)

\* the threshold compared with >= instead of >
voice_detected_Mut(snd) == PeakAbs(snd) >= SILENCE_THRESHOLD

\* voice_detected, lines 132-134
voice_detected(snd) == PeakAbs(snd) > SILENCE_THRESHOLD

\* <<|i|, peak>> for which the double product i * (32767.0 / peak) falls just
\* below the integer |i| * 32767 / peak, so that int() truncates one lower
FloatShort == { <<49, 49>>, <<3000, 3000>>, <<3004, 3004>> }

\* int(min(MAXIMUMVOL, max(-MAXIMUMVOL, i * times))), times = 32767.0 / peak
ScaleSample(i, peak) ==
    LET exact == (Abs(i) * MAXIMUMVOL) \div peak
        mag   == IF <<Abs(i), peak>> \in FloatShort /\ exact > 0
                 THEN exact - 1 ELSE exact
        clamp == Min2(MAXIMUMVOL, mag)
    IN  IF i < 0 THEN -clamp ELSE clamp

\* normalize, lines 136-142
normalize(snd) ==
    LET max_amplitude == PeakAbs(snd)
    IN  IF max_amplitude = 0 THEN snd
        ELSE [k \in 1..Len(snd) |-> ScaleSample(snd[k], max_amplitude)]

RECURSIVE TrimLeft(_)
\* _trim, lines 146-154: drop samples until the first one above the threshold
TrimLeft(snd) ==
    IF snd = <<>> THEN <<>>
    ELSE IF Abs(Head(snd)) > SILENCE_THRESHOLD THEN snd
    ELSE TrimLeft(Tail(snd))

\* only the start trimmed
trim_Mut(snd) == TrimLeft(snd)

\* trim, lines 144-162
trim(snd) == Reverse(TrimLeft(Reverse(TrimLeft(snd))))

\* add_silence, lines 164-167; the duration is given in tenths of a second
add_silence(snd, tenths) ==
    LET silence == [k \in 1..((tenths * RATE) \div 10) |-> 0]
    IN  silence \o snd \o silence

----------------------------------------------------------------------------
(* State *)

VARIABLES
    pc,                       \* where voxrecord is: "wait_loop", "record_init",
                              \* "record_loop" or "exited"
    buffer_chunks,            \* wait_for_activity: capacity of the pre-roll buffer
    min_voice_chunks,         \* wait_for_activity: active chunks needed for onset
    pre_roll_buffer,          \* wait_for_activity: list of chunks
    consecutive_voice_chunks, \* wait_for_activity: counter
    initial_buffer,           \* voxrecord: what wait_for_activity returned
    snd_data,                 \* record_audio: the samples recorded so far
    record_started_stamp,     \* record_audio: time.time() at line 233
    last_voice_stamp,         \* record_audio: time of the last active chunk
    wav_filename,             \* record_audio: the stamp in tx_<stamp>
    clock,                    \* the wall clock, in ticks
    files,                    \* the wave files written, in order
    log,                      \* what lines 276 and 294 printed, in order
    exit_reason,              \* "none", "error" (line 334) or "interrupt" (line 79)
    interrupted,              \* signal_handler has run (it printed line 78)
    input,                    \* history: every chunk read so far
    wait_from,                \* history: Len(input) when wait_for_activity began
    arrived_at,               \* history: clock tick at which the last read returned
    regular                   \* history: the clock advanced in real time so far

vars == << pc, buffer_chunks, min_voice_chunks, pre_roll_buffer,
           consecutive_voice_chunks, initial_buffer, snd_data,
           record_started_stamp, last_voice_stamp, wav_filename, clock,
           files, log, exit_reason, interrupted, input, wait_from, arrived_at,
           regular >>

config == << buffer_chunks, min_voice_chunks >>

record_locals == << snd_data, record_started_stamp, last_voice_stamp,
                    wav_filename >>

\* the silence timeout in ticks
TimeoutTicks == RECORD_AFTER_SILENCE_SECS * TicksPerSec

\* the chunks read in the current run of wait_for_activity
heard == SubSeq(input, wait_from + 1, Len(input))

----------------------------------------------------------------------------
(* wait_for_activity *)

\* the oldest chunk dropped one chunk too early
PushRing_Mut(buf, chunk, capacity) ==
    LET appended == Append(buf, chunk)
    IN  IF Len(appended) >= capacity THEN Tail(appended) ELSE appended

\* lines 194-198: append, then drop the oldest chunk when over capacity
PushRing(buf, chunk, capacity) ==
    LET appended == Append(buf, chunk)
    IN  IF Len(appended) > capacity THEN Tail(appended) ELSE appended

\* the counter not reset by an inactive chunk
NextCount_Mut(count, voice) == IF voice THEN count + 1 ELSE count

\* lines 204-210: the counter after a chunk
NextCount(count, voice) == IF voice THEN count + 1 ELSE 0

\* the loop breaks on the first active chunk
OnsetConfirmed_Mut(count, voice, needed) == voice

\* lines 204-208: the loop breaks
OnsetConfirmed(count, voice, needed) ==
    voice /\ NextCount(count, voice) >= needed

\* time.strftime("%Y%m%d%H%M%S"), line 236: the wall clock in whole seconds
StampOf(tick) == tick \div TicksPerSec

\* the timeout compared with >= instead of >
TimedOut_Mut(now, last) == now >= last + RECORD_AFTER_SILENCE_SECS * TicksPerSec

\* line 254: time.time() > last_voice_stamp + RECORD_AFTER_SILENCE_SECS
TimedOut(now, last) == now > last + TimeoutTicks

Init ==
    /\ pc = "wait_loop"
    /\ buffer_chunks \in 0..MaxBufferChunks
    /\ min_voice_chunks \in 1..MaxMinVoice
    /\ pre_roll_buffer = <<>>
    /\ consecutive_voice_chunks = 0
    /\ initial_buffer = <<>>
    /\ snd_data = <<>>
    /\ record_started_stamp = 0
    /\ last_voice_stamp = 0
    /\ wav_filename = 0
    /\ clock = 0
    /\ files = <<>>
    /\ log = <<>>
    /\ exit_reason = "none"
    /\ interrupted = FALSE
    /\ input = <<>>
    /\ wait_from = 0
    /\ arrived_at = 0
    /\ regular = TRUE

\* the buffer and the counter kept from one call of wait_for_activity to the
\* next, as module-level state would be
EnterWait_Mut(reads) ==
    /\ pc' = "wait_loop"
    /\ UNCHANGED << pre_roll_buffer, consecutive_voice_chunks >>
    /\ initial_buffer' = <<>>
    /\ snd_data' = <<>>
    /\ record_started_stamp' = 0
    /\ last_voice_stamp' = 0
    /\ wav_filename' = 0
    /\ wait_from' = reads

\* voxrecord line 289 calls wait_for_activity, whose lines 176-183 start from
\* an empty buffer and a zero counter; the locals of record_audio are gone
EnterWait(reads) ==
    /\ pc' = "wait_loop"
    /\ pre_roll_buffer' = <<>>
    /\ consecutive_voice_chunks' = 0
    /\ initial_buffer' = <<>>
    /\ snd_data' = <<>>
    /\ record_started_stamp' = 0
    /\ last_voice_stamp' = 0
    /\ wav_filename' = 0
    /\ wait_from' = reads

\* one iteration of the loop of wait_for_activity, lines 186-210, and on the
\* break the return to voxrecord, lines 212-218 and 289
WaitChunk(chunk, d) ==
    /\ pc = "wait_loop"
    /\ Len(input) < MaxReads
    /\ clock + d <= MaxClock
    /\ clock' = clock + d
    /\ input' = Append(input, chunk)
    /\ arrived_at' = clock + d
    /\ regular' = (regular /\ d = ChunkTicks)
    /\ LET voice == voice_detected(chunk)
           buf   == PushRing(pre_roll_buffer, chunk, buffer_chunks)
       IN  /\ pre_roll_buffer' = buf
           /\ consecutive_voice_chunks' =
                  NextCount(consecutive_voice_chunks, voice)
           /\ IF OnsetConfirmed(consecutive_voice_chunks, voice,
                                min_voice_chunks)
              THEN /\ pc' = "record_init"
                   /\ initial_buffer' = buf
              ELSE /\ pc' = "wait_loop"
                   /\ initial_buffer' = initial_buffer
    /\ UNCHANGED << config, record_locals, files, log, exit_reason,
                    interrupted, wait_from >>

\* the source fails in wait_for_activity (lines 172-173 or 188): the finally of
\* line 212 runs, the exception leaves voxrecord, whose try does not cover
\* line 289, and is caught at line 333; the process ends at line 336
WaitSourceError ==
    /\ pc = "wait_loop"
    /\ pc' = "exited"
    /\ exit_reason' = "error"
    /\ UNCHANGED << config, pre_roll_buffer, consecutive_voice_chunks,
                    initial_buffer, record_locals, clock, files, log, input,
                    wait_from, arrived_at, regular, interrupted >>

----------------------------------------------------------------------------
(* record_audio *)

\* lines 223-236: open the stream (the clock advances by d), seed snd_data,
\* read the clock for the two stamps, then (g ticks later) for the file name
RecordStart(d, g) ==
    /\ pc = "record_init"
    /\ clock + d + g <= MaxClock
    /\ clock' = clock + d + g
    /\ regular' = (regular /\ d = 0 /\ g = 0)
    /\ snd_data' = Flatten(initial_buffer)
    /\ record_started_stamp' = clock + d
    /\ last_voice_stamp' = clock + d
    /\ wav_filename' = StampOf(clock + d + g)
    /\ pc' = "record_loop"
    /\ UNCHANGED << config, pre_roll_buffer, consecutive_voice_chunks,
                    initial_buffer, files, log, exit_reason, interrupted,
                    input, wait_from, arrived_at >>

\* record_audio called outside the try: the exception ends the process
RecordingFails_Mut(what, reads) ==
    /\ log' = Append(log, what)
    /\ pc' = "exited"
    /\ exit_reason' = "error"
    /\ UNCHANGED << config, pre_roll_buffer, consecutive_voice_chunks,
                    initial_buffer, record_locals, files, wait_from,
                    interrupted >>

\* an exception raised inside record_audio reaches line 293, is printed at
\* line 294, and the loop of line 287 calls wait_for_activity again
RecordingFails(what, reads) ==
    /\ log' = Append(log, what)
    /\ EnterWait(reads)
    /\ UNCHANGED << config, files, exit_reason, interrupted >>

\* the stream cannot be opened, lines 223-225
RecordOpenError ==
    /\ pc = "record_init"
    /\ RecordingFails("error: source", Len(input))
    /\ UNCHANGED << clock, input, arrived_at, regular >>

\* padded without being trimmed
Process_Mut(snd) == add_silence(normalize(snd), 5)

\* lines 262-264
Process(snd) == add_silence(trim(normalize(snd)), 5)

\* the file named after the time of writing
SaveAudio_Mut(snd, now) ==
    /\ files' = Append(files, [ name       |-> now \div TicksPerSec,
                                frames     |-> Process(snd),
                                written_at |-> now ])
    /\ log' = Append(log, "finished")
    /\ EnterWait(Len(input) + 1)
    /\ UNCHANGED << config, exit_reason, interrupted >>

\* lines 267-278: the file is written and the end of the recording printed
SaveAudio(snd, now) ==
    /\ files' = Append(files, [ name       |-> wav_filename,
                                frames     |-> Process(snd),
                                written_at |-> now ])
    /\ log' = Append(log, "finished")
    /\ EnterWait(Len(input) + 1)
    /\ UNCHANGED << config, exit_reason, interrupted >>

\* the stamp refreshed by every chunk, active or not
LastVoice_Mut(voice, now, last) == now

\* lines 250-251: last_voice_stamp after a chunk read at time now
LastVoice(voice, now, last) == IF voice THEN now ELSE last

\* one iteration of the loop of record_audio, lines 239-255: the read returns
\* d ticks after the last clock value, line 251 reads the clock then and
\* line 254 reads it g ticks later; on the break, lines 256-278 and the
\* return to line 287.  ok says whether wave.open and writeframes succeed.
RecordIteration(chunk, d, g, ok) ==
    /\ pc = "record_loop"
    /\ clock' = clock + d + g
    /\ input' = Append(input, chunk)
    /\ arrived_at' = clock + d
    /\ regular' = (regular /\ d = ChunkTicks /\ g = 0)
    /\ LET voice == voice_detected(chunk)
           last  == LastVoice(voice, clock + d, last_voice_stamp)
           snd   == snd_data \o chunk
       IN  IF TimedOut(clock + d + g, last)
           THEN IF ok THEN SaveAudio(snd, clock + d + g)
                      ELSE RecordingFails("error: write", Len(input) + 1)
           ELSE /\ ok
                /\ snd_data' = snd
                /\ last_voice_stamp' = last
                /\ UNCHANGED << pc, config, pre_roll_buffer,
                                consecutive_voice_chunks, initial_buffer,
                                record_started_stamp, wav_filename,
                                files, log, exit_reason, interrupted,
                                wait_from >>

\* an iteration within the bounds of the model
RecordChunk(chunk, d, g, ok) ==
    /\ Len(input) < MaxReads
    /\ clock + d + g <= MaxClock
    /\ RecordIteration(chunk, d, g, ok)

\* the source fails in the loop of record_audio, line 241
RecordSourceError ==
    /\ pc = "record_loop"
    /\ RecordingFails("error: source", Len(input))
    /\ UNCHANGED << clock, input, arrived_at, regular >>

----------------------------------------------------------------------------
(* signal_handler, lines 77-79: it prints and sys.exit(0) raises SystemExit *)
(* at the statement the main thread is executing                            *)

\* the signal arrives anywhere outside lines 85-86: the except Exception
\* clauses of lines 293 and 333 do not catch SystemExit, the finally clauses
\* of lines 212 and 256 close the stream and the process ends
Interrupt ==
    /\ pc # "exited"
    /\ interrupted' = TRUE
    /\ pc' = "exited"
    /\ exit_reason' = "interrupt"
    /\ UNCHANGED << config, pre_roll_buffer, consecutive_voice_chunks,
                    initial_buffer, record_locals, clock, files, log, input,
                    wait_from, arrived_at, regular >>

\* the signal arrives while show_status, called at lines 201 and 247, is in
\* the try of lines 85-86: the bare except of line 87 catches the SystemExit
\* and the loop goes on
InterruptInShowStatus ==
    /\ pc \in {"wait_loop", "record_loop"}
    /\ interrupted' = TRUE
    /\ UNCHANGED << pc, config, pre_roll_buffer, consecutive_voice_chunks,
                    initial_buffer, record_locals, clock, files, log,
                    exit_reason, input, wait_from, arrived_at, regular >>

----------------------------------------------------------------------------

Next ==
    \/ \E chunk \in ChunkInputs, d \in Steps : WaitChunk(chunk, d)
    \/ WaitSourceError
    \/ \E d \in Steps, g \in Gaps : RecordStart(d, g)
    \/ RecordOpenError
    \/ \E chunk \in ChunkInputs, d \in Steps, g \in Gaps, ok \in BOOLEAN :
           RecordChunk(chunk, d, g, ok)
    \/ RecordSourceError
    \/ Interrupt
    \/ InterruptInShowStatus

Spec == Init /\ [][Next]_vars

----------------------------------------------------------------------------
(* Vocabulary of the properties.  A chunk is loud when one of its samples  *)
(* is above the threshold in absolute value; the properties are stated on  *)
(* the history of the chunks read, input, and not on the program's counter. *)

IsLoud(chunk) == \E i \in 1..Len(chunk) : Abs(chunk[i]) > SILENCE_THRESHOLD

\* s[from..to] is a run of loud chunks
LoudRun(s, from, to) == \A j \in from..to : IsLoud(s[j])

\* some n consecutive chunks of s are loud
HasRun(s, n) == \E i \in n..Len(s) : LoudRun(s, i - n + 1, i)

\* the number of loud chunks at the end of s
TrailingLoud(s) ==
    CHOOSE n \in 0..Len(s) :
        /\ LoudRun(s, Len(s) - n + 1, Len(s))
        /\ (n < Len(s) => ~IsLoud(s[Len(s) - n]))

Front(s) == SubSeq(s, 1, Len(s) - 1)

Waiting == pc = "wait_loop"

Recording == pc \in {"record_init", "record_loop"}

NoError == exit_reason = "none" /\ \A i \in 1..Len(log) : log[i] = "finished"

----------------------------------------------------------------------------
(* C1: while waiting, the counter is the length of the run of loud chunks  *)
(* that ends the chunks heard (an inactive chunk makes it 0) and no run of *)
(* min_voice_chunks loud chunks has been heard; onset is confirmed on the  *)
(* chunk that completes the first such run, and on no other.               *)
C1_OnsetOnFirstRun ==
    /\ Waiting =>
          /\ consecutive_voice_chunks = TrailingLoud(heard)
          /\ ~HasRun(heard, min_voice_chunks)
    /\ pc = "record_init" =>
          /\ LoudRun(heard, Len(heard) - min_voice_chunks + 1, Len(heard))
          /\ Len(heard) >= min_voice_chunks
          /\ ~HasRun(Front(heard), min_voice_chunks)

\* onset confirmed after a shorter loud run was cut by an inactive chunk
C1_Witness ==
    /\ pc = "record_init"
    /\ min_voice_chunks >= 2
    /\ \E i \in 1..(Len(heard) - 1) : IsLoud(heard[i]) /\ ~IsLoud(heard[i + 1])

(* C2: as long as the chunks read contain no run of min_voice_chunks loud  *)
(* chunks, no file has been written and no recording has begun: the        *)
(* program, unless it has ended, is waiting.                               *)
C2_NoRunNoUtterance ==
    ~HasRun(input, min_voice_chunks) =>
        /\ files = <<>>
        /\ \A i \in 1..Len(log) : log[i] # "finished"
        /\ ~Recording
        /\ (exit_reason = "none" => Waiting)

\* a loud spike shorter than the minimum, with silence on both sides
C2_Witness ==
    /\ Waiting
    /\ ~HasRun(input, min_voice_chunks)
    /\ Len(input) >= 3
    /\ \E i \in 2..(Len(input) - 1) :
          ~IsLoud(input[i - 1]) /\ IsLoud(input[i]) /\ ~IsLoud(input[i + 1])
    /\ files = <<>>

(* C3: a chunk read while recording ends the recording exactly when the    *)
(* clock read of the test (line 254) is more than the timeout past the     *)
(* last active time: the arrival time of this chunk if it is loud, else    *)
(* the stamp kept so far, which is the arrival time of the last loud chunk *)
(* of the recording or, before any, the time the recording started.        *)
C3_SilenceTimeout ==
    [][ /\ (pc = "record_init" /\ pc' = "record_loop") =>
               /\ last_voice_stamp' = record_started_stamp'
               /\ record_started_stamp' \in clock..clock'
        /\ (pc = "record_loop" /\ Len(input') = Len(input) + 1) =>
               LET last_active == IF IsLoud(input'[Len(input')])
                                  THEN arrived_at'
                                  ELSE last_voice_stamp
               IN  /\ (pc' # "record_loop") <=>
                          (clock' - last_active >
                               RECORD_AFTER_SILENCE_SECS * TicksPerSec)
                   /\ pc' = "record_loop" =>
                          /\ last_voice_stamp' = last_active
                          /\ record_started_stamp' = record_started_stamp
      ]_vars

\* a loud chunk moved the deadline: the recording is still going on later
\* than the timeout counted from its start
C3_Witness ==
    /\ pc = "record_loop"
    /\ last_voice_stamp > record_started_stamp
    /\ clock > record_started_stamp + RECORD_AFTER_SILENCE_SECS * TicksPerSec

(* C4: a source error while recording is followed by the finalize of the   *)
(* samples captured so far: the step that reports the error writes a file. *)
C4_ErrorStillFinalizes ==
    [][ (pc = "record_loop" /\ log' = Append(log, "error: source")) =>
            Len(files') = Len(files) + 1
      ]_vars

(* C5: a source error never ends the process: it ends only on an interrupt *)
(* (the start-up checks are made before the loop).                         *)
C5_SourceErrorNeverStops ==
    pc = "exited" => exit_reason = "interrupt"

(* C6: the step in which writing the file fails reports the error, does    *)
(* not end the process and leaves the program waiting with an empty        *)
(* pre-roll buffer and a zero counter; the files written before are kept.  *)
C6_WriteFailureRecovers ==
    [][ log' = Append(log, "error: write") =>
            /\ pc = "record_loop"
            /\ pc' = "wait_loop"
            /\ exit_reason' = "none"
            /\ pre_roll_buffer' = <<>>
            /\ consecutive_voice_chunks' = 0
            /\ heard' = <<>>
            /\ SubSeq(files', 1, Len(files)) = files
      ]_vars

\* after a failed write, a later onset produced a recording
C6_Witness ==
    \E i \in 1..Len(log) : \E j \in (i + 1)..Len(log) :
        log[i] = "error: write" /\ log[j] = "finished"

(* C7: in wait_for_activity the pre-roll buffer never holds more than      *)
(* buffer_chunks chunks, and holds the last min(n, buffer_chunks) of the n *)
(* chunks heard, in the order of arrival.                                  *)
C7_RingHoldsLastK ==
    (pc \in {"wait_loop", "record_init"}) =>
        /\ Len(pre_roll_buffer) <= buffer_chunks
        /\ Len(pre_roll_buffer) = Min2(Len(heard), buffer_chunks)
        /\ \A i \in 1..Len(pre_roll_buffer) :
              pre_roll_buffer[i] =
                  heard[Len(heard) - Len(pre_roll_buffer) + i]

\* a full buffer of two different chunks after the oldest chunk was evicted
C7_Witness ==
    /\ Waiting
    /\ buffer_chunks >= 2
    /\ Len(heard) > buffer_chunks
    /\ Len(pre_roll_buffer) = buffer_chunks
    /\ pre_roll_buffer[1] # pre_roll_buffer[2]
    /\ heard[1] # pre_roll_buffer[1]

(* C8: the seed of a recording ends with the confirming chunk, whatever    *)
(* the capacity: it is a non-empty tail of the chunks heard.               *)
C8_SeedEndsWithConfirmingChunk ==
    pc = "record_init" =>
        /\ Len(initial_buffer) >= 1
        /\ initial_buffer = LastN(heard, Len(initial_buffer))

\* the number of loud chunks at the start of s
LeadingLoud(s) ==
    CHOOSE n \in 0..Len(s) :
        /\ LoudRun(s, 1, n)
        /\ (n < Len(s) => ~IsLoud(s[n + 1]))

\* the input so far is one run of at least min_voice_chunks loud chunks
\* followed by inactive chunks only
OneBurst ==
    /\ LeadingLoud(input) >= min_voice_chunks
    /\ \A j \in (LeadingLoud(input) + 1)..Len(input) : ~IsLoud(input[j])

\* the ticks of silence that followed the burst
SilenceTicks == (Len(input) - LeadingLoud(input)) * ChunkTicks

(* C9: when the source delivers in real time and nothing fails, an input   *)
(* of one loud run of at least min_voice_chunks chunks followed by silence *)
(* gives at most one file, and once the silence has lasted longer than the *)
(* timeout exactly one, with the program waiting again.                    *)
C9_OneBurstOneUtterance ==
    (regular /\ NoError /\ OneBurst) =>
        /\ Len(files) <= 1
        /\ (SilenceTicks > RECORD_AFTER_SILENCE_SECS * TicksPerSec) =>
               /\ Len(files) = 1
               /\ Waiting

\* the burst was longer than the onset needs, the recording is over and the
\* silence goes on in wait_for_activity
C9_Witness ==
    /\ regular /\ NoError /\ OneBurst
    /\ LeadingLoud(input) > min_voice_chunks
    /\ Len(files) = 1
    /\ Waiting
    /\ Len(heard) >= 1

(* C10: the stamp of the file name is read while the recording is entered, *)
(* stays the same for the whole recording, and is the name of the file     *)
(* written at the end, whatever the time of writing.                       *)
C10_NameIsEntryTime ==
    [][ /\ (pc = "record_init" /\ pc' = "record_loop") =>
               \E t \in clock..clock' : wav_filename' = t \div TicksPerSec
        /\ (pc = "record_loop" /\ pc' = "record_loop") =>
               wav_filename' = wav_filename
        /\ (Len(files') = Len(files) + 1) =>
               /\ pc = "record_loop"
               /\ files'[Len(files')].name = wav_filename
               /\ SubSeq(files', 1, Len(files)) = files
      ]_vars

\* a file written in a later second than the one its name carries
C10_Witness ==
    \E i \in 1..Len(files) :
        files[i].written_at \div TicksPerSec >
            files[i].name + RECORD_AFTER_SILENCE_SECS

(* C11: every time wait_for_activity begins (at the start, after a file    *)
(* was written, after a failed recording) the pre-roll buffer is empty and *)
(* the counter is 0; afterwards both hold nothing but chunks heard since.  *)
C11_WaitingStartsFresh ==
    /\ (Waiting /\ heard = <<>>) =>
          /\ pre_roll_buffer = <<>>
          /\ consecutive_voice_chunks = 0
    /\ (pc \in {"wait_loop", "record_init"}) =>
          /\ Len(pre_roll_buffer) <= Len(heard)
          /\ consecutive_voice_chunks <= Len(heard)
    /\ pc = "record_init" => Len(initial_buffer) <= Len(heard)

\* waiting again, nothing heard yet, after a written file and a failed
\* recording, with a pre-roll buffer that had chunks in it
C11_Witness ==
    /\ Waiting
    /\ heard = <<>>
    /\ buffer_chunks >= 1
    /\ \E i \in 1..Len(log) : log[i] = "finished"
    /\ \E i \in 1..Len(log) : log[i] = "error: source"

(* C12: once the interrupt signal has been handled the process has ended:  *)
(* it reads no further chunk and writes no file.                           *)
C12_InterruptTerminates ==
    interrupted => pc = "exited"

----------------------------------------------------------------------------
(* normalize and trim on their own: a sample sequence is drawn, kept in    *)
(* input, and the functions are called on snd_data, each call replacing    *)
(* snd_data by the result and being noted in log.                          *)

\* signed 16-bit samples: silence, quiet, at the threshold, just above it,
\* and the two ends of the range
AudioSamples == { 0, 49, -3000, 3001, 32767, -32768 }

AudioInputs ==
    UNION { [1..n -> AudioSamples] : n \in 0..MaxSamples }

InitAudio ==
    /\ pc = "audio"
    /\ \E x \in AudioInputs : snd_data = x /\ input = << x >>
    /\ buffer_chunks = 0
    /\ min_voice_chunks = 1
    /\ pre_roll_buffer = <<>>
    /\ consecutive_voice_chunks = 0
    /\ initial_buffer = <<>>
    /\ record_started_stamp = 0
    /\ last_voice_stamp = 0
    /\ wav_filename = 0
    /\ clock = 0
    /\ files = <<>>
    /\ log = <<>>
    /\ exit_reason = "none"
    /\ interrupted = FALSE
    /\ wait_from = 0
    /\ arrived_at = 0
    /\ regular = TRUE

audio_rest == << buffer_chunks, min_voice_chunks, pre_roll_buffer,
                 consecutive_voice_chunks, initial_buffer,
                 record_started_stamp, last_voice_stamp, wav_filename, clock,
                 files, exit_reason, interrupted, input, wait_from,
                 arrived_at, regular >>

\* snd_data = normalize(snd_data); max() of line 138 raises ValueError on an
\* empty sequence
CallNormalize ==
    /\ pc = "audio"
    /\ Len(log) < MaxCalls
    /\ IF snd_data = <<>>
       THEN /\ pc' = "raised"
            /\ UNCHANGED << snd_data, log >>
       ELSE /\ snd_data' = normalize(snd_data)
            /\ log' = Append(log, "normalize")
            /\ pc' = pc
    /\ UNCHANGED audio_rest

\* snd_data = trim(snd_data)
CallTrim ==
    /\ pc = "audio"
    /\ Len(log) < MaxCalls
    /\ snd_data' = trim(snd_data)
    /\ log' = Append(log, "trim")
    /\ UNCHANGED << pc, audio_rest >>

NextAudio == CallNormalize \/ CallTrim

SpecAudio == InitAudio /\ [][NextAudio]_vars

\* the samples of x from the first to the last one above the threshold
LoudSpan(x) ==
    LET loud == {i \in 1..Len(x) : Abs(x[i]) > SILENCE_THRESHOLD}
    IN  IF loud = {} THEN <<>>
        ELSE SubSeq(x, CHOOSE i \in loud : \A j \in loud : i <= j,
                       CHOOSE i \in loud : \A j \in loud : i >= j)

(* C13: trim(x) is the part of x from its first to its last sample above   *)
(* the threshold, empty when x has none, and trimming that again gives the *)
(* same: trim(trim(x)) = trim(x).                                          *)
C13_TrimIdempotent ==
    (pc = "audio" /\ log \in { <<"trim">>, <<"trim", "trim">> }) =>
        snd_data = LoudSpan(input[1])

\* trimmed twice, samples dropped at both ends and a quiet sample kept inside
C13_Witness ==
    /\ pc = "audio"
    /\ log = <<"trim", "trim">>
    /\ Len(snd_data) >= 1
    /\ Len(snd_data) < Len(input[1])
    /\ Abs(input[1][1]) <= SILENCE_THRESHOLD
    /\ Abs(input[1][Len(input[1])]) <= SILENCE_THRESHOLD

(* C14: normalizing a normalized buffer changes nothing; a buffer whose    *)
(* peak is 32767 and a buffer of zeros are returned as they are; every     *)
(* sample of the result is within -32767..32767.                           *)
C14_NormalizeIdempotent ==
    [][ /\ (log = <<"normalize">> /\ log' = <<"normalize", "normalize">>) =>
               snd_data' = snd_data
        /\ (log = <<>> /\ log' = <<"normalize">>) =>
               /\ (\A i \in 1..Len(snd_data) : Abs(snd_data[i]) <= MAXIMUMVOL)
                      /\ (\E i \in 1..Len(snd_data) :
                              Abs(snd_data[i]) = MAXIMUMVOL)
                   => snd_data' = snd_data
               /\ (\A i \in 1..Len(snd_data) : snd_data[i] = 0)
                   => snd_data' = snd_data
               /\ \A i \in 1..Len(snd_data') :
                      snd_data'[i] \in (-MAXIMUMVOL)..MAXIMUMVOL
      ]_vars

----------------------------------------------------------------------------
(* The threshold of wait_for_activity on its own: a configuration          *)
(* <<tenths of a second of VOICE_MIN_DURATION_SECS, RATE, CHUNK_SIZE>> is  *)
(* drawn and kept in input, lines 176-181 compute the two numbers, then    *)
(* active chunks are fed until the loop breaks.                            *)

\* line 177: RATE * PRE_ROLL_SECS // CHUNK_SIZE
BufferChunks(rate, pre_roll_secs, chunk_size) ==
    (rate * pre_roll_secs) \div chunk_size

\* line 180: max(1, int(VOICE_MIN_DURATION_SECS * RATE / CHUNK_SIZE)); int()
\* drops the fraction
MinVoiceChunks(tenths, rate, chunk_size) ==
    LET whole == (tenths * rate) \div (10 * chunk_size)
    IN  IF whole >= 1 THEN whole ELSE 1

\* the constants of lines 36, 38 and 41, and small configurations
OnsetConfigs ==
    { <<5, 44100, 1024>> } \cup ({5, 10, 15, 20} \X {2, 3, 4} \X {1, 2, 3})

InitOnset ==
    /\ pc = "config"
    /\ \E c \in OnsetConfigs : input = << c >>
    /\ buffer_chunks = 0
    /\ min_voice_chunks = 1
    /\ pre_roll_buffer = <<>>
    /\ consecutive_voice_chunks = 0
    /\ initial_buffer = <<>>
    /\ snd_data = <<>>
    /\ record_started_stamp = 0
    /\ last_voice_stamp = 0
    /\ wav_filename = 0
    /\ clock = 0
    /\ files = <<>>
    /\ log = <<>>
    /\ exit_reason = "none"
    /\ interrupted = FALSE
    /\ wait_from = 0
    /\ arrived_at = 0
    /\ regular = TRUE

onset_rest == << pre_roll_buffer, initial_buffer, snd_data,
                 record_started_stamp, last_voice_stamp, wav_filename, clock,
                 files, log, exit_reason, interrupted, input, wait_from,
                 arrived_at, regular >>

\* lines 176-181, PRE_ROLL_SECS = 2 (line 40)
Configure ==
    /\ pc = "config"
    /\ buffer_chunks' = BufferChunks(input[1][2], 2, input[1][3])
    /\ min_voice_chunks' = MinVoiceChunks(input[1][1], input[1][2], input[1][3])
    /\ consecutive_voice_chunks' = 0
    /\ pc' = "onset"
    /\ UNCHANGED onset_rest

\* lines 204-208 for an active chunk
FeedActive ==
    /\ pc = "onset"
    /\ consecutive_voice_chunks' = NextCount(consecutive_voice_chunks, TRUE)
    /\ pc' = IF OnsetConfirmed(consecutive_voice_chunks, TRUE, min_voice_chunks)
             THEN "confirmed" ELSE "onset"
    /\ UNCHANGED << buffer_chunks, min_voice_chunks, onset_rest >>

NextOnset == Configure \/ FeedActive

SpecOnset == InitOnset /\ [][NextOnset]_vars

\* the least whole number not below a / b
CeilDiv(a, b) == (a + b - 1) \div b

(* C15: min_voice_chunks is max(1, ceil(duration * rate / chunk_size)):    *)
(* that many active chunks in a row confirm onset, and with 0.5 s,         *)
(* 44100 Hz and 1024 samples it is the 22nd.                               *)
C15_MinVoiceChunksIsCeil ==
    (pc \in {"onset", "confirmed"}) =>
        LET needed == CeilDiv(input[1][1] * input[1][2], 10 * input[1][3])
        IN  /\ min_voice_chunks = IF needed >= 1 THEN needed ELSE 1
            /\ (pc = "confirmed" /\ input[1] = <<5, 44100, 1024>>) =>
                   consecutive_voice_chunks = 22

----------------------------------------------------------------------------
(* C17: a loud chunk read while recording never ends the recording in the  *)
(* iteration that processes it, however the clock advances between the     *)
(* read of line 251 and the read of line 254.                              *)
C17_ActiveChunkNeverEnds ==
    [][ (/\ pc = "record_loop"
         /\ Len(input') = Len(input) + 1
         /\ IsLoud(input'[Len(input')])) => pc' = "record_loop"
      ]_vars

(* C20: the clock never goes back, and any two files written in one run    *)
(* have different names.                                                   *)
C20_FileNamesDiffer ==
    \A i \in 1..Len(files) : \A j \in 1..Len(files) :
        i # j => files[i].name # files[j].name

----------------------------------------------------------------------------
(* Sustained silence.  The program keeps running: record_audio starts once *)
(* called, and while it records, chunks keep arriving; SilentTick is an    *)
(* iteration of its loop on an inactive chunk during whose read the clock  *)
(* advances.  Active chunks and reads during which the clock stands still  *)
(* are bounded by MaxReads, so from some point on every chunk is inactive. *)

\* The bounds leave room for the silence to outlast the timeout after the
\* last read and the last tick of the other actions.
SilentTick ==
    \E chunk \in ChunkInputs, d \in 1..MaxStep, ok \in BOOLEAN :
        /\ ~voice_detected(chunk)
        /\ Len(input) <= MaxReads + RECORD_AFTER_SILENCE_SECS * TicksPerSec
        /\ clock + d <=
               MaxClock + RECORD_AFTER_SILENCE_SECS * TicksPerSec + MaxStep
        /\ RecordIteration(chunk, d, 0, ok)

NextLive ==
    \/ \E chunk \in ChunkInputs, d \in {0, ChunkTicks} : WaitChunk(chunk, d)
    \/ RecordStart(0, 0)
    \/ \E chunk \in ChunkInputs, d \in {0, ChunkTicks} :
           RecordChunk(chunk, d, 0, TRUE)
    \/ SilentTick

SpecLive ==
    /\ Init
    /\ [][NextLive]_vars
    /\ WF_vars(RecordStart(0, 0))
    /\ WF_vars(SilentTick)

(* C18: a recording always comes to its end under sustained silence: from  *)
(* every state in which the program records it gets back to waiting.       *)
C18_SilenceEndsRecording == Recording ~> Waiting

\* waiting again after a recording that went on past the reads of the model
C18_Witness ==
    /\ Waiting
    /\ Len(input) > MaxReads
    /\ Len(log) >= 1

----------------------------------------------------------------------------
(* What is written to the files.  The same program with no failure, on     *)
(* chunks of silence, of samples at the threshold and of two loud peaks,   *)
(* and with reads that last one chunk or longer than the timeout.          *)

ContentChunks == { <<0, 0>>, <<0, 3000>>, <<-3001, 0>>, <<0, 3004>> }

NextContent ==
    \/ \E chunk \in ContentChunks, d \in {ChunkTicks, MaxStep} :
           WaitChunk(chunk, d)
    \/ RecordStart(0, 0)
    \/ \E chunk \in ContentChunks, d \in {ChunkTicks, MaxStep} :
           RecordChunk(chunk, d, 0, TRUE)

SpecContent == Init /\ [][NextContent]_vars

\* int(0.5 * RATE)
PadSamples == (5 * RATE) \div 10

Zeros(n) == [k \in 1..n |-> 0]

\* while recording: the index in input of the chunk that confirmed onset,
\* the one completing the first run of min_voice_chunks loud chunks heard
OnsetAt ==
    CHOOSE n \in (wait_from + min_voice_chunks)..Len(input) :
        /\ LoudRun(input, n - min_voice_chunks + 1, n)
        /\ \A m \in (wait_from + min_voice_chunks)..(n - 1) :
               ~LoudRun(input, m - min_voice_chunks + 1, m)

\* the samples of a recording whose chunks so far are those of all: the last
\* buffer_chunks chunks heard up to the onset, then every chunk read since
RecordingBuffer(all) ==
    Flatten(LastN(SubSeq(all, wait_from + 1, OnsetAt), buffer_chunks))
        \o Flatten(SubSeq(all, OnsetAt + 1, Len(all)))

(* C16: the samples of every file are PadSamples zeros, then               *)
(* trim(normalize(B)), then PadSamples zeros, where B is the seed followed *)
(* by every chunk read while recording, the one on which the timeout fired *)
(* included; when the trimmed part is not empty the zeros at each end are  *)
(* exactly PadSamples.                                                     *)
C16_FrameContents ==
    [][ (Len(files') = Len(files) + 1) =>
            LET body == trim(normalize(RecordingBuffer(input')))
                out  == files'[Len(files')].frames
            IN  /\ out = Zeros(PadSamples) \o body \o Zeros(PadSamples)
                /\ body # <<>> =>
                       /\ out[PadSamples + 1] # 0
                       /\ out[Len(out) - PadSamples] # 0
      ]_vars

\* a file of a recording seeded with a quiet chunk before the onset and ended
\* by a silent chunk, which is trimmed away
C16_Witness ==
    \E i \in 1..Len(files) :
        /\ Len(files[i].frames) >= 2 * PadSamples + 4
        /\ Len(files[i].frames) < 2 * PadSamples + 2 * Len(input)
        /\ buffer_chunks >= 2
        /\ input[Len(input)] = <<0, 0>>
        /\ Waiting /\ heard = <<>>

(* C19: with a pre-roll capacity of at least one chunk, every file has     *)
(* samples between its two pads, the peak of these is full scale, and the  *)
(* first and the last of them are above the threshold.                     *)
C19_ContentNotEmpty ==
    buffer_chunks >= 1 =>
        \A i \in 1..Len(files) :
            LET out  == files[i].frames
                body == SubSeq(out, PadSamples + 1, Len(out) - PadSamples)
            IN  /\ Len(out) > 2 * PadSamples
                /\ PeakAbs(body) = MAXIMUMVOL
                /\ Abs(body[1]) > SILENCE_THRESHOLD
                /\ Abs(body[Len(body)]) > SILENCE_THRESHOLD

====
